---- MODULE Spec2Model ----
(***************************************************************************)
(* A model of lw_mlearn.lw_model.ML_model: the object's attributes, the    *)
(* files it keeps under its model path, and one action per public method.  *)
(* Every method is an operator from a "world" (the object, the disk, the   *)
(* log of the running call, the pending exception and the return value)    *)
(* to the world it leaves; a raised Python exception stops the remaining   *)
(* statements of every caller, as it does in the code.                     *)
(*                                                                         *)
(* scikit-learn and the lw_mlearn helper modules that are not part of the  *)
(* modelled file are represented by what the calls in lw_model.py rely on; *)
(* each such operator says so in its comment.                              *)
(***************************************************************************)
EXTENDS Integers, Sequences, FiniteSets, TLC

VARIABLES
    estimator,       \* self.estimator
    gridcv_results,  \* self.gridcv_results
    trainscore,      \* self.trainscore (None: the attribute is absent)
    testscore,       \* self.testscore  (None: the attribute is absent)
    disk,            \* the files under self.path: file key -> content
    call,            \* the public method invoked last, with its arguments
    trace,           \* what that invocation did, in order
    outcome          \* how that invocation ended: returned value or exception

vars == <<estimator, gridcv_results, trainscore, testscore, disk, call, trace, outcome>>

----------------------------------------------------------------------------
(* Bounds of the model *)

\* grid searches one estimator may have gone through
MaxSearches == 2

\* test sets handed to one run_test call
MaxTestSets == 2

----------------------------------------------------------------------------
(* Values *)

\* Python's None, an absent attribute, an absent optional argument
None == <<>>

\* An optional argument that is given holds its value in a 1-tuple
Some(x) == <<x>>

\* (X, y) data sets
Data == {"D1", "D2"}

\* n_splits values handed as cv
CvValues == {1, 3}

\* str(i) for the indices the model uses
NumStr(i) == CASE i = 0 -> "0" [] i = 1 -> "1" [] i = 2 -> "2" [] i = 3 -> "3"
               [] OTHER -> "n"

\* the pipeline names handed to pipe_main
PipeNames == {"dummy", "clean_oht_XGBClassifier"}

\* named_steps of the pipeline pipe_main builds from a name
named_steps(name) ==
    IF name = "clean_oht_XGBClassifier" THEN <<"clean", "oht", "XGBClassifier">>
    ELSE <<"DummyClassifier">>

\* pipe_grid(step): the predefined parameter grids of a step, None if it has none
pipe_grid(step) ==
    IF step = "XGBClassifier" THEN <<"XGB_grid0", "XGB_grid1">> ELSE None

\* the parameter grids a caller may hand in
Grids == {"XGB_grid0", "XGB_grid1"}

\* pipe_main(name): a new, unfitted pipeline
pipe_main(name) ==
    [cls |-> named_steps(name)[Len(named_steps(name))],
     steps |-> named_steps(name),
     pipe |-> TRUE,
     fitted |-> FALSE,
     params |-> <<>>,
     bins |-> None,
     memory |-> "None"]

\* a bare classifier: it has _estimator_type, no named_steps and no memory
BareClassifier ==
    [cls |-> "LogisticRegression", steps |-> <<>>, pipe |-> FALSE,
     fitted |-> FALSE, params |-> <<>>, bins |-> None, memory |-> "None"]

\* _get_estimator_name: the class name of the (final) estimator
_get_estimator_name(e) == e.cls

Classes == {"DummyClassifier", "XGBClassifier", "LogisticRegression"}

----------------------------------------------------------------------------
(* The disk: files are keyed <<folder, prefix, tag, suffix>> *)

PipeKey(cls) == <<"", "", cls, ".pipe">>
PipeKeys == {PipeKey(c) : c \in Classes}
TrainDataKey == <<"data", "", "0", ".traindata">>
TestDataKey(n) == <<"data", "", NumStr(n), ".testdata">>
TestDataKeys == {TestDataKey(n) : n \in 1..MaxTestSets}
TempFolder == <<"tempfolder", "", "", "">>

\* permutations of a finite set: the orders a directory may be listed in
Perms(S) ==
    {s \in [1..Cardinality(S) -> S] : \A x \in S : \E i \in 1..Cardinality(S) : s[i] = x}

\* Objs_management.write(obj, file)
write(d, key, content) ==
    [k \in (DOMAIN d) \cup {key} |-> IF k = key THEN content ELSE d[k]]

RECURSIVE MapContents(_, _)
MapContents(d, keys) ==
    IF keys = <<>> THEN <<>>
    ELSE <<d[Head(keys)]>> \o MapContents(d, Tail(keys))

\* Objs_management.read_all(suffix, path): the objects of the files that end in
\* suffix, in the order ls in which the folder is listed
read_all(d, ls) ==
    MapContents(d, SelectSeq(ls, LAMBDA k : k \in DOMAIN d))

\* del Objs_management.path_: the folder and all it holds are removed
delete_path(d) == [k \in {} |-> None]

----------------------------------------------------------------------------
(* Worlds *)

Log(w, ev) == [w EXCEPT !.trace = Append(@, ev)]
Raise(w, e) == [w EXCEPT !.exc = e, !.val = None]
Return(w, v) == [w EXCEPT !.val = v]
Ok(w) == w.exc = ""

\* the statements F that follow a call: run in the world v the call leaves,
\* skipped when the call raised (v is evaluated once)
Then(v, F(_)) == CHOOSE r \in {IF Ok(x) THEN F(x) ELSE x : x \in {v}} : TRUE

\* the world a public method starts in: the object and the disk as they are
World ==
    [estimator |-> estimator, gridcv_results |-> gridcv_results,
     trainscore |-> trainscore, testscore |-> testscore, disk |-> disk,
     trace |-> <<>>, exc |-> "", val |-> None]

\* the state the public method c leaves when it ends in world w
Commit(c, w) ==
    /\ estimator' = w.estimator
    /\ gridcv_results' = w.gridcv_results
    /\ trainscore' = w.trainscore
    /\ testscore' = w.testscore
    /\ disk' = w.disk
    /\ call' = c
    /\ trace' = w.trace
    /\ outcome' = [kind |-> IF Ok(w) THEN "return" ELSE "raise",
                   exc |-> w.exc, val |-> w.val]

----------------------------------------------------------------------------
(* ML_model.__init__ *)

\* the estimator arguments of the constructor
EstimatorArgs ==
    {[kind |-> "str", name |-> n, obj |-> BareClassifier] : n \in PipeNames}
    \cup {[kind |-> "estimator", name |-> "", obj |-> BareClassifier],
          [kind |-> "estimator", name |-> "", obj |-> pipe_main("clean_oht_XGBClassifier")],
          [kind |-> "object", name |-> "", obj |-> BareClassifier],
          [kind |-> "None", name |-> "", obj |-> BareClassifier]}

\* __init__ as it would be if it took the '.pipe' file read last
__init__last_read(w, arg, ls) ==
    LET new == [w EXCEPT !.gridcv_results = None, !.trainscore = None,
                         !.testscore = None]
    IN IF arg.kind # "None"
       THEN IF arg.kind = "str"
            THEN Return([new EXCEPT !.estimator = pipe_main(arg.name)], <<"self">>)
            ELSE IF arg.kind = "estimator"
            THEN Return([new EXCEPT !.estimator = arg.obj], <<"self">>)
            ELSE Raise(w, "ValueError")
       ELSE LET gen == read_all(w.disk, ls)
            IN IF Len(gen) > 0
               THEN Return(Log([new EXCEPT !.estimator = gen[Len(gen)]],
                               <<"read", _get_estimator_name(gen[Len(gen)])>>), <<"self">>)
               ELSE Return([new EXCEPT !.estimator = pipe_main("dummy")], <<"self">>)

\* ls: the order in which the '.pipe' files of the model path are listed
__init__(w, arg, ls) ==
    LET new == [w EXCEPT !.gridcv_results = None, !.trainscore = None,
                         !.testscore = None]
    IN IF arg.kind # "None"
       THEN IF arg.kind = "str"
            THEN Return([new EXCEPT !.estimator = pipe_main(arg.name)], <<"self">>)
            ELSE IF arg.kind = "estimator"
            THEN Return([new EXCEPT !.estimator = arg.obj], <<"self">>)
            ELSE Raise(w, "ValueError")
       ELSE LET gen == read_all(w.disk, ls)
            IN IF Len(gen) > 0
               THEN Return(Log([new EXCEPT !.estimator = gen[1]],
                               <<"read", _get_estimator_name(gen[1])>>), <<"self">>)
               ELSE Return([new EXCEPT !.estimator = pipe_main("dummy")], <<"self">>)

----------------------------------------------------------------------------
(* save, _shut_temp_folder, fit *)

save(w) ==
    LET name == _get_estimator_name(w.estimator)
        d1 == write(w.disk, PipeKey(name), w.estimator)
        d2 == write(d1, <<"", "ML_model", "", ".param">>, None)
        d3 == write(d2, <<"", "ML_model", name, ".instance">>, None)
    IN Return(Log([w EXCEPT !.disk = d3], <<"save", name>>), None)

_shut_temp_folder(w) ==
    IF ~w.estimator.pipe
    THEN Raise(w, "AttributeError")   \* getattr(self.estimator, 'memory'), no default
    ELSE IF w.estimator.memory # "None"
    THEN Return([w EXCEPT !.disk = [k \in (DOMAIN @) \ {TempFolder} |-> @[k]],
                          !.estimator.memory = "None"], None)
    ELSE Return(w, None)

\* a pipeline with memory set caches its fitted transformers in that folder
FitCache(w) ==
    IF w.estimator.pipe /\ w.estimator.memory # "None"
    THEN [w EXCEPT !.disk = write(@, TempFolder, None)]
    ELSE w

fit(w, d) ==
    Return(Log([FitCache(w) EXCEPT !.estimator.fitted = TRUE], <<"fit", d>>), <<"self">>)

----------------------------------------------------------------------------
(* grid_searchcv, rand_searchcv, plot_gridcv *)

\* the cv_results_ table of a search of grid over data d, started from estimator e
CvResults(e, grid, d) == <<e.params, grid, d>>

\* best_estimator_: a refitted clone of e with the best parameters of grid set.
\* A clone keeps the constructor parameters (memory among them) and none of the
\* attributes set on the instance later (bins).
BestEstimator(e, grid) ==
    [e EXCEPT !.fitted = TRUE, !.params = Append(@, grid), !.bins = None]

\* grid_searchcv as it would be without the assignment to self.gridcv_results
grid_searchcv_results_kept(w, d, param_grid, refit) ==
    LET w1 == FitCache(Log(w, <<"grid_searchcv", param_grid>>))
        cv_results == CvResults(w.estimator, param_grid, d)
    IN IF ~refit
       THEN Raise(w1, "AttributeError")
       ELSE Return([w1 EXCEPT !.estimator = BestEstimator(w.estimator, param_grid)],
                   cv_results)

\* refit: FALSE stands for refit=False/None, TRUE for a scorer name
grid_searchcv(w, d, param_grid, refit) ==
    LET w1 == FitCache(Log(w, <<"grid_searchcv", param_grid>>))
        cv_results == CvResults(w.estimator, param_grid, d)
    IN IF ~refit
       THEN Raise(w1, "AttributeError")    \* grid.best_estimator_ does not exist
       ELSE Return([w1 EXCEPT !.estimator = BestEstimator(w.estimator, param_grid),
                              !.gridcv_results = cv_results], cv_results)

rand_searchcv(w, d, param_distributions, refit) ==
    LET w1 == FitCache(Log(w, <<"rand_searchcv", param_distributions>>))
        cv_results == CvResults(w.estimator, param_distributions, d)
    IN IF ~refit
       THEN Raise(w1, "AttributeError")
       ELSE Return([w1 EXCEPT !.estimator = BestEstimator(w.estimator, param_distributions)],
                   cv_results)

\* title: None or Some(string)
plot_gridcv(w, title, save_fig) ==
    LET key == IF title # None THEN <<"plots", "gridcv_", title[1], ".pdf">>
               ELSE <<"plots", "gridcv", "", ".pdf">>
    IN IF save_fig THEN [w EXCEPT !.disk = write(@, key, None)] ELSE w

----------------------------------------------------------------------------
(* plot_lift *)

\* the (q, bins, max_leaf_nodes) arguments: None, or a number of bins in a
\* 1-tuple; at most one of them is given (the note of plot_lift's docstring)
NoLift == [q |-> None, bins |-> None, max_leaf_nodes |-> None]
LiftArgs ==
    {NoLift,
     [q |-> Some(5), bins |-> None, max_leaf_nodes |-> None],
     [q |-> None, bins |-> None, max_leaf_nodes |-> Some(10)]}

\* any([max_leaf_nodes, q, bins])
AnyLift(a) == a.max_leaf_nodes # None \/ a.q # None \/ a.bins # None

hasattr_bins(e) == e.bins # None

\* plotter_lift_curve: the bin edges it cuts the predictions of data d with.
\* bins is None, a number of bins (1-tuple) or an array of edges (3-tuple).
plotter_lift_curve(d, bins, q, max_leaf_nodes) ==
    CASE Len(bins) = 3 -> bins
      [] Len(bins) = 1 -> <<"width", bins[1], d>>
      [] Len(bins) = 0 /\ q # None -> <<"freq", q[1], d>>
      [] Len(bins) = 0 /\ q = None /\ max_leaf_nodes # None
            -> <<"tree", max_leaf_nodes[1], d>>

\* plot_lift as it would be without the update of self.estimator.bins
plot_lift_bins_kept(w, d, q, bins, max_leaf_nodes, use_self_bins, title, save_fig) ==
    IF ~w.estimator.fitted
    THEN Raise(w, "NotFittedError")
    ELSE IF use_self_bins /\ ~hasattr_bins(w.estimator)
    THEN Return(Log(w, <<"plot_lift", "no plot">>), None)
    ELSE LET bins1 == IF use_self_bins THEN w.estimator.bins ELSE bins
             q1 == IF use_self_bins THEN None ELSE q
             mln1 == IF use_self_bins THEN None ELSE max_leaf_nodes
             edges == plotter_lift_curve(d, bins1, q1, mln1)
             w1 == Log(w, <<"plot_lift", "plot">>)
             t == IF title = None THEN "0" ELSE title[1]
             w2 == IF save_fig
                   THEN [w1 EXCEPT !.disk = write(@, <<"plots", "lift", t, ".pdf">>, None)]
                   ELSE w1
         IN Return(w2, <<"ax", edges>>)

plot_lift(w, d, q, bins, max_leaf_nodes, use_self_bins, title, save_fig) ==
    IF ~w.estimator.fitted
    THEN Raise(w, "NotFittedError")          \* _check_fitted
    ELSE IF use_self_bins /\ ~hasattr_bins(w.estimator)
    THEN Return(Log(w, <<"plot_lift", "no plot">>), None)
    ELSE LET bins1 == IF use_self_bins THEN w.estimator.bins ELSE bins
             q1 == IF use_self_bins THEN None ELSE q
             mln1 == IF use_self_bins THEN None ELSE max_leaf_nodes
             edges == plotter_lift_curve(d, bins1, q1, mln1)
             w1 == Log([w EXCEPT !.estimator.bins = edges], <<"plot_lift", "plot">>)
             t == IF title = None THEN "0" ELSE title[1]
             w2 == IF save_fig
                   THEN [w1 EXCEPT !.disk = write(@, <<"plots", "lift", t, ".pdf">>, None)]
                   ELSE w1
         IN Return(w2, <<"ax", edges>>)

----------------------------------------------------------------------------
(* _split_cv, plot_auc_traincv, plot_auc_test, cv_validate, test_score *)

\* _split_cv: the (train, test) folds of data d; with cv == 1 one fold whose
\* train and test part are both the whole of d
_split_cv(d, cv) ==
    IF cv = 1
    THEN <<[train |-> <<d, "all", 0, 1>>, test |-> <<d, "all", 0, 1>>]>>
    ELSE [i \in 1..cv |-> [train |-> <<d, "rest", i, cv>>, test |-> <<d, "fold", i, cv>>]]

\* plot_auc_traincv fits a deep copy of the estimator on each train part
plot_auc_traincv(w, d, cv, title, save_fig) ==
    LET data_splits == _split_cv(d, cv)
        key == IF title # None THEN <<"plots", "roc_train_", title[1], ".pdf">>
               ELSE <<"plots", "roc_train", "", ".pdf">>
        w1 == Log(FitCache(w), <<"plot_auc_traincv", NumStr(Len(data_splits))>>)
        w2 == IF save_fig THEN [w1 EXCEPT !.disk = write(@, key, None)] ELSE w1
    IN Return(w2, <<"splits", data_splits>>)

plot_auc_test(w, d, cv, title, save_fig) ==
    LET data_splits == _split_cv(d, cv)
        key == IF title # None THEN <<"plots", "roc_test_", title[1], ".pdf">>
               ELSE <<"plots", "roc_test", "", ".pdf">>
    IN IF ~w.estimator.fitted
       THEN Raise(w, "NotFittedError")       \* _check_fitted
       ELSE LET w1 == Log(w, <<"plot_auc_test", NumStr(Len(data_splits))>>)
                w2 == IF save_fig THEN [w1 EXCEPT !.disk = write(@, key, None)] ELSE w1
            IN Return(w2, <<"splits", data_splits>>)

\* cv_validate hands cv to sklearn's cross_validate as it is. cross_validate
\* builds a (Stratified)KFold(n_splits=cv) from an integer cv, and KFold
\* rejects n_splits < 2 with a ValueError.
cv_validate(w, d, cv) ==
    IF cv < 2
    THEN Raise(Log(w, <<"cv_validate", "n_splits rejected">>), "ValueError")
    ELSE Return(Log(FitCache(w), <<"cv_validate", NumStr(cv)>>), <<"cv_score", d, cv>>)

test_score(w, d, cv) ==
    LET data_splits == _split_cv(d, cv)
    IN Return(Log(w, <<"test_score", NumStr(Len(data_splits))>>), <<"scores", d, cv>>)

----------------------------------------------------------------------------
(* _get_dataset, run_train *)

\* train_set: None or Some(data). The data to train on, written to
\* data/0.traindata when given and read from there when not.
get_train_set(w, train_set) ==
    IF train_set = None
    THEN IF TrainDataKey \in DOMAIN w.disk
         THEN Return(w, w.disk[TrainDataKey])
         ELSE Raise(w, "FileNotFoundError")
    ELSE Return([w EXCEPT !.disk = write(@, TrainDataKey, train_set)], train_set)

\* self.verbose is 1, the constructor's default
run_train(w, train_set, title, lift, cv, save_fig) ==
    LET t == IF title # None THEN title[1] ELSE "0"
    IN Then(get_train_set(Log(w, <<"run_train", "call">>), train_set), LAMBDA w0 :
       Then(plot_auc_traincv(w0, w0.val[1], cv, title, save_fig), LAMBDA w1 :
       Then(fit(w1, w0.val[1]), LAMBDA w2 :
       Then(IF AnyLift(lift)
            THEN plot_lift(w2, w0.val[1], lift.q, lift.bins, lift.max_leaf_nodes,
                           FALSE, title, save_fig)
            ELSE w2, LAMBDA w3 :
       Then(cv_validate(w3, w0.val[1], cv), LAMBDA w4 :
            LET d5 == write(write(w4.disk,
                          <<"spreadsheet", "TrainPerfomance", t, ".xlsx">>, None),
                          <<"spreadsheet", "TrainSplits", t, ".xlsx">>, None)
                d6 == IF save_fig
                      THEN write(d5, <<"plots", "TrainScore_path", "", ".pdf">>, None)
                      ELSE d5
            IN Return(Log([w4 EXCEPT !.disk = d6], <<"run_train", "return">>),
                      <<"train", w0.val[1], cv>>))))))

----------------------------------------------------------------------------
(* run_test *)

\* [str(i) for i in range(n)]
DefaultTitles(n) == [i \in 1..n |-> NumStr(i - 1)]

\* the body of the loop over zip(test_set_list, title_list)
RECURSIVE run_test_loop(_, _, _, _, _, _)
run_test_loop(w, sets, titles, use_self_bins, cv, save_fig) ==
    IF sets = <<>> \/ titles = <<>> THEN w
    ELSE LET d == Head(sets)
             j == Head(titles)
         IN Then(plot_auc_test(w, d, cv, Some(j), save_fig), LAMBDA w1 :
            Then(plot_lift(w1, d, None, None, None, use_self_bins, Some(j), save_fig),
                 LAMBDA w2 :
            Then(test_score(w2, d, cv), LAMBDA w3 :
                 LET d4 == write(write(w3.disk,
                               <<"spreadsheet", "TestSplits", j, ".xlsx">>, None),
                               <<"spreadsheet", "TestPerfomance", j, ".xlsx">>, None)
                 IN run_test_loop([w3 EXCEPT !.disk = d4], Tail(sets), Tail(titles),
                                  use_self_bins, cv, save_fig))))

\* run_test as it would be if it wrote the '.testdata' file in every call
run_test_always_writes(w, test_set, title, use_self_bins, cv, save_fig, ls) ==
    LET w0 == Log(w, <<"run_test", "call">>)
        gen == read_all(w.disk, ls)
        stored == test_set = None
    IN IF stored /\ Len(gen) = 0
       THEN Raise(w0, "FileNotFoundError")
       ELSE
       LET test_set_list == IF stored THEN gen[1][1] ELSE test_set[1]
           title_list == IF stored THEN gen[1][2]
                         ELSE IF title # None THEN title[1]
                         ELSE DefaultTitles(Len(test_set_list))
       IN IF Len(test_set_list) # Len(title_list)
          THEN Raise(w0, "ValueError")
          ELSE
          Then(Log([w0 EXCEPT !.disk = write(@, TestDataKey(Len(title_list)),
                                             <<test_set_list, title_list>>)],
                   <<"write testdata", NumStr(Len(title_list))>>), LAMBDA w1 :
          Then(run_test_loop(w1, test_set_list, title_list, use_self_bins, cv, save_fig),
               LAMBDA w2 :
               LET d3 == IF save_fig
                         THEN write(w2.disk, <<"plots", "TestScore_path", "", ".pdf">>, None)
                         ELSE w2.disk
                   d4 == IF Len(test_set_list) > 1
                         THEN write(d3, <<"spreadsheet", "TestPerformanceAll", "", ".xlsx">>,
                                    None)
                         ELSE d3
               IN Return(Log([w2 EXCEPT !.disk = d4], <<"run_test", "return">>),
                         <<"test", test_set_list, cv>>)))

\* test_set: None or Some(list of data); title: None or Some(list of titles);
\* ls: the order in which the '.testdata' files of 'data' are listed
run_test(w, test_set, title, use_self_bins, cv, save_fig, ls) ==
    LET w0 == Log(w, <<"run_test", "call">>)
        gen == read_all(w.disk, ls)
        stored == test_set = None
    IN IF stored /\ Len(gen) = 0
       THEN Raise(w0, "FileNotFoundError")          \* _get_dataset
       ELSE
       LET test_set_list == IF stored THEN gen[1][1] ELSE test_set[1]
           title_list == IF stored THEN gen[1][2]
                         ELSE IF title # None THEN title[1]
                         ELSE DefaultTitles(Len(test_set_list))
       IN IF Len(test_set_list) # Len(title_list)
          THEN Raise(w0, "ValueError")              \* check_consistent_length
          ELSE
          Then(IF ~stored
               THEN Log([w0 EXCEPT !.disk = write(@, TestDataKey(Len(title_list)),
                                                  <<test_set_list, title_list>>)],
                        <<"write testdata", NumStr(Len(title_list))>>)
               ELSE w0, LAMBDA w1 :
          Then(run_test_loop(w1, test_set_list, title_list, use_self_bins, cv, save_fig),
               LAMBDA w2 :
               LET d3 == IF save_fig
                         THEN write(w2.disk, <<"plots", "TestScore_path", "", ".pdf">>, None)
                         ELSE w2.disk
                   d4 == IF Len(test_set_list) > 1
                         THEN write(d3, <<"spreadsheet", "TestPerformanceAll", "", ".xlsx">>,
                                    None)
                         ELSE d3
               IN Return(Log([w2 EXCEPT !.disk = d4], <<"run_test", "return">>),
                         <<"test", test_set_list, cv>>)))

----------------------------------------------------------------------------
(* run_sensitivity *)

\* param_grid=-1: use the predefined grids of the pipeline's steps
Predefined == None

RECURSIVE predefined_grids(_)
predefined_grids(steps) ==
    IF steps = <<>> THEN <<>>
    ELSE (IF pipe_grid(Head(steps)) # None THEN pipe_grid(Head(steps)) ELSE <<>>)
         \o predefined_grids(Tail(steps))

RECURSIVE search_loop(_, _, _, _, _, _, _)

\* the loop as it would be if it put each result in front of the earlier ones
search_loop_prepend(w, d, grids, i, refit, save_fig, cv_results) ==
    IF grids = <<>> THEN Return(w, cv_results)
    ELSE Then(grid_searchcv(w, d, Head(grids), refit), LAMBDA w1 :
         Then(plot_gridcv(w1, Some(NumStr(i)), save_fig), LAMBDA w2 :
              search_loop(w2, d, Tail(grids), i + 1, refit, save_fig,
                          <<w2.gridcv_results>> \o cv_results)))

\* the loop over enumerate(get_flat_list(param_grid)), from index i on
search_loop(w, d, grids, i, refit, save_fig, cv_results) ==
    IF grids = <<>> THEN Return(w, cv_results)
    ELSE Then(grid_searchcv(w, d, Head(grids), refit), LAMBDA w1 :
         Then(plot_gridcv(w1, Some(NumStr(i)), save_fig), LAMBDA w2 :
              search_loop(w2, d, Tail(grids), i + 1, refit, save_fig,
                          Append(cv_results, w2.gridcv_results))))

\* param_grid: Predefined or Some(list of grids)
run_sensitivity(w, train_set, title, param_grid, refit, save_fig) ==
    Then(get_train_set(Log(w, <<"run_sensitivity", "call">>), train_set), LAMBDA w0 :
       IF param_grid = Predefined /\ ~w0.estimator.pipe
       THEN Raise(w0, "AttributeError")          \* self.estimator.named_steps
       ELSE
       LET grids == IF param_grid = Predefined
                    THEN predefined_grids(w0.estimator.steps)
                    ELSE param_grid[1]
           t == IF title = None THEN "0" ELSE title[1]
       IN IF Len(grids) = 0
          THEN Return(Log(Log(w0, <<"run_sensitivity", "skip">>),
                          <<"run_sensitivity", "return">>), None)
          ELSE
          Then(IF w0.estimator.pipe
               THEN [w0 EXCEPT !.estimator.memory = "tempfolder"]
               ELSE w0, LAMBDA w1 :
          Then(search_loop(w1, w0.val[1], grids, 0, refit, save_fig, <<>>), LAMBDA w2 :
          Then(save([w2 EXCEPT !.disk = write(@,
                        <<"spreadsheet", "GridcvResults", t, ".xlsx">>, w2.val)]),
               LAMBDA w4 :
          Then(_shut_temp_folder(w4), LAMBDA w5 :
               Return(Log(w5, <<"run_sensitivity", "return">>), None))))))

----------------------------------------------------------------------------
(* run_analysis, delete_model *)

\* run_analysis as it would be if it trained before the grid search
run_analysis_train_first(w, train_set, test_set, test_title, lift, cv, grid_search, train_test) ==
    Then(Log(w, <<"run_analysis", "call">>), LAMBDA w0 :
    Then(IF train_test
         THEN run_train(w0, train_set, Some("Train"), lift, cv, TRUE)
         ELSE w0, LAMBDA w1 :
    Then(IF train_test
         THEN Log([w1 EXCEPT !.trainscore = w1.val], <<"trainscore", "assign">>)
         ELSE w1, LAMBDA w2 :
    Then(IF grid_search
         THEN run_sensitivity(w2, train_set, None, Predefined, TRUE, TRUE)
         ELSE w2, LAMBDA w3 :
    Then(IF train_test /\ test_set # None
         THEN run_test(w3, test_set, test_title, TRUE, cv, TRUE, <<>>)
         ELSE w3, LAMBDA w4 :
    Then(IF train_test /\ test_set # None
         THEN Log([w4 EXCEPT !.testscore = w4.val], <<"testscore", "assign">>)
         ELSE w4, LAMBDA w5 :
    Then(save(w5), LAMBDA w6 :
         Return(Log(w6, <<"run_analysis", "return">>), <<"self">>))))))))

\* run_analysis as it would be if run_test were outside the train_test branch
run_analysis_test_outside(w, train_set, test_set, test_title, lift, cv, grid_search, train_test) ==
    Then(Log(w, <<"run_analysis", "call">>), LAMBDA w0 :
    Then(IF grid_search
         THEN run_sensitivity(w0, train_set, None, Predefined, TRUE, TRUE)
         ELSE w0, LAMBDA w1 :
    Then(IF train_test
         THEN run_train(w1, train_set, Some("Train"), lift, cv, TRUE)
         ELSE w1, LAMBDA w2 :
    Then(IF train_test
         THEN Log([w2 EXCEPT !.trainscore = w2.val], <<"trainscore", "assign">>)
         ELSE w2, LAMBDA w3 :
    Then(IF test_set # None
         THEN run_test(w3, test_set, test_title, TRUE, cv, TRUE, <<>>)
         ELSE w3, LAMBDA w4 :
    Then(IF test_set # None
         THEN Log([w4 EXCEPT !.testscore = w4.val], <<"testscore", "assign">>)
         ELSE w4, LAMBDA w5 :
    Then(save(w5), LAMBDA w6 :
         Return(Log(w6, <<"run_analysis", "return">>), <<"self">>))))))))

\* train_set, test_set, test_title as in run_train and run_test. run_test is
\* called with a test set only, so it lists no stored '.testdata' file.
run_analysis(w, train_set, test_set, test_title, lift, cv, grid_search, train_test) ==
    Then(Log(w, <<"run_analysis", "call">>), LAMBDA w0 :
    Then(IF grid_search
         THEN run_sensitivity(w0, train_set, None, Predefined, TRUE, TRUE)
         ELSE w0, LAMBDA w1 :
    Then(IF train_test
         THEN run_train(w1, train_set, Some("Train"), lift, cv, TRUE)
         ELSE w1, LAMBDA w2 :
    Then(IF train_test
         THEN Log([w2 EXCEPT !.trainscore = w2.val], <<"trainscore", "assign">>)
         ELSE w2, LAMBDA w3 :
    Then(IF train_test /\ test_set # None
         THEN run_test(w3, test_set, test_title, TRUE, cv, TRUE, <<>>)
         ELSE w3, LAMBDA w4 :
    Then(IF train_test /\ test_set # None
         THEN Log([w4 EXCEPT !.testscore = w4.val], <<"testscore", "assign">>)
         ELSE w4, LAMBDA w5 :
    Then(save(w5), LAMBDA w6 :
         Return(Log(w6, <<"run_analysis", "return">>), <<"self">>))))))))

\* delete_model as it would be if it left the folder in place
delete_model_folder_kept(w) ==
    Return(Log(w, <<"delete_model", "">>), None)

delete_model(w) ==
    Return(Log([w EXCEPT !.disk = delete_path(@)], <<"delete_model", "">>), None)

----------------------------------------------------------------------------
(* The arguments the callers hand in *)

\* train sets: the stored one (None) or data D1
TrainSets == {None, Some("D1")}

\* the k-th test set and its title
TestSetOf(k) == IF k % 2 = 1 THEN "D2" ELSE "D1"
TitleOf(k) == CASE k = 1 -> "A" [] k = 2 -> "B" [] OTHER -> "C"

\* lists of 1..MaxTestSets test sets, and of as many titles
SetLists == {[k \in 1..n |-> TestSetOf(k)] : n \in 1..MaxTestSets}
TestSets == {None} \cup {Some(s) : s \in SetLists}
TitleLists == {[k \in 1..n |-> TitleOf(k)] : n \in 1..MaxTestSets}
TestTitles == {None} \cup {Some(t) : t \in TitleLists}

\* param_grid: the predefined grids, or a list of 0..MaxSearches grids in the
\* reverse of the predefined order
GridOf(k) == IF k % 2 = 1 THEN "XGB_grid1" ELSE "XGB_grid0"
GridLists == {[k \in 1..n |-> GridOf(k)] : n \in 0..MaxSearches}
ParamGrids == {Predefined} \cup {Some(g) : g \in GridLists}

\* the number of searches run_sensitivity makes of param_grid on estimator e
Searches(e, param_grid) ==
    IF param_grid = Predefined
    THEN (IF e.pipe THEN Len(predefined_grids(e.steps)) ELSE 0)
    ELSE Len(param_grid[1])

\* the model follows an estimator through at most MaxSearches searches
CanSearch(n) == Len(estimator.params) + n <= MaxSearches

----------------------------------------------------------------------------
(* One action per public method *)

Construct ==
    \E arg \in EstimatorArgs, ls \in Perms(PipeKeys) :
        Commit([op |-> "__init__", args |-> [estimator |-> arg, ls |-> ls]],
               __init__(World, arg, ls))

Fit ==
    \E d \in {"D1"} :
        Commit([op |-> "fit", args |-> [d |-> d]], fit(World, d))

PlotLift ==
    \E d \in Data, a \in LiftArgs, use_self_bins \in BOOLEAN :
        /\ use_self_bins \/ AnyLift(a)
        /\ Commit([op |-> "plot_lift",
                   args |-> [d |-> d, lift |-> a, use_self_bins |-> use_self_bins]],
                  plot_lift(World, d, a.q, a.bins, a.max_leaf_nodes, use_self_bins,
                            None, TRUE))

GridSearchCV ==
    \E d \in {"D1"}, g \in Grids, refit \in BOOLEAN :
        /\ CanSearch(1)
        /\ Commit([op |-> "grid_searchcv", args |-> [d |-> d, param_grid |-> g, refit |-> refit]],
                  grid_searchcv(World, d, g, refit))

RandSearchCV ==
    \E d \in {"D1"}, g \in Grids, refit \in BOOLEAN :
        /\ CanSearch(1)
        /\ Commit([op |-> "rand_searchcv",
                   args |-> [d |-> d, param_distributions |-> g, refit |-> refit]],
                  rand_searchcv(World, d, g, refit))

RunTrain ==
    \E train_set \in TrainSets, a \in LiftArgs, cv \in CvValues :
        Commit([op |-> "run_train", args |-> [train_set |-> train_set, lift |-> a, cv |-> cv]],
               run_train(World, train_set, Some("Train"), a, cv, TRUE))

\* the 'data' folder is listed only when no test set is given; cv is left at
\* its default
RunTest ==
    \E test_set \in TestSets, title \in TestTitles, cv \in {3} :
        \E ls \in IF test_set = None THEN Perms(TestDataKeys) ELSE {<<>>} :
            Commit([op |-> "run_test",
                    args |-> [test_set |-> test_set, title |-> title, cv |-> cv, ls |-> ls]],
                   run_test(World, test_set, title, TRUE, cv, TRUE, ls))

RunSensitivity ==
    \E train_set \in TrainSets, param_grid \in ParamGrids, refit \in BOOLEAN :
        /\ CanSearch(Searches(estimator, param_grid))
        /\ Commit([op |-> "run_sensitivity",
                   args |-> [train_set |-> train_set, param_grid |-> param_grid,
                             refit |-> refit]],
                  run_sensitivity(World, train_set, None, param_grid, refit, TRUE))

\* run_analysis is handed one test set or none
RunAnalysis ==
    \E train_set \in {Some("D1")}, test_title \in {None},
       test_set \in {t \in TestSets : t = None \/ Len(t[1]) = 1},
       a \in {x \in LiftArgs : x.q = None}, cv \in CvValues, grid_search \in BOOLEAN, train_test \in BOOLEAN :
        /\ grid_search => CanSearch(Searches(estimator, Predefined))
        /\ Commit([op |-> "run_analysis",
                   args |-> [train_set |-> train_set, test_set |-> test_set,
                             test_title |-> test_title, lift |-> a, cv |-> cv,
                             grid_search |-> grid_search, train_test |-> train_test]],
                  run_analysis(World, train_set, test_set, test_title, a, cv,
                               grid_search, train_test))

Save ==
    Commit([op |-> "save", args |-> None], save(World))

DeleteModel ==
    Commit([op |-> "delete_model", args |-> None], delete_model(World))

----------------------------------------------------------------------------
(* The specification *)

\* the constructor arguments the object under study is made with
InitArgs == {a \in EstimatorArgs : a.kind = "str" \/ (a.kind = "estimator" /\ ~a.obj.pipe)}

\* an ML_model constructed on an empty model path
Init ==
    \E arg \in InitArgs :
        LET w == __init__([estimator |-> BareClassifier, gridcv_results |-> None,
                           trainscore |-> None, testscore |-> None,
                           disk |-> [k \in {} |-> None], trace |-> <<>>,
                           exc |-> "", val |-> None],
                          arg, <<>>)
        IN /\ estimator = w.estimator
           /\ gridcv_results = w.gridcv_results
           /\ trainscore = w.trainscore
           /\ testscore = w.testscore
           /\ disk = w.disk
           /\ call = [op |-> "__init__", args |-> [estimator |-> arg, ls |-> <<>>]]
           /\ trace = w.trace
           /\ outcome = [kind |-> "return", exc |-> "", val |-> w.val]

\* run_analysis on a model, and the removal of its folder
Next ==
    \/ RunAnalysis
    \/ DeleteModel

Spec == Init /\ [][Next]_vars

\* run_train
NextTrain ==
    \/ RunTrain
    \/ Fit
    \/ DeleteModel

SpecTrain == Init /\ [][NextTrain]_vars

\* plot_lift on estimators fitted directly or by a search
NextLift ==
    \/ Fit
    \/ PlotLift
    \/ GridSearchCV

SpecLift == Init /\ [][NextLift]_vars

\* the searches
NextSearch ==
    \/ GridSearchCV
    \/ RandSearchCV
    \/ RunSensitivity
    \/ Save

SpecSearch == Init /\ [][NextSearch]_vars

\* construction over the files earlier models left in the model path
NextInit ==
    \/ Construct
    \/ Fit
    \/ Save

SpecInit == Init /\ [][NextInit]_vars

\* run_test
NextTest ==
    \/ RunTest
    \/ Fit
    \/ DeleteModel

SpecTest == Init /\ [][NextTest]_vars

----------------------------------------------------------------------------
(* Properties. call, trace and outcome describe the public call made last;  *)
(* in an action formula the unprimed variables are the object and the disk  *)
(* as that call found them.                                                 *)

Has(t, ev) == \E i \in 1..Len(t) : t[i] = ev
IsPrefix(s, t) == Len(s) <= Len(t) /\ \A i \in 1..Len(s) : s[i] = t[i]
Returned(o) == o.kind = "return"

\* the steps of run_analysis, in the order of its code
AnalysisOrder ==
    << <<"run_sensitivity", "call">>, <<"run_sensitivity", "return">>,
       <<"run_train", "call">>, <<"run_train", "return">>, <<"trainscore", "assign">>,
       <<"run_test", "call">>, <<"run_test", "return">>, <<"testscore", "assign">>,
       <<"run_analysis", "return">> >>

\* the steps among the events t of one call
AnalysisSteps(t) == SelectSeq(t, LAMBDA e : Has(AnalysisOrder, e))

\* run_analysis with grid_search=True, train_test=True and a test set
FullAnalysis(c) ==
    /\ c.op = "run_analysis"
    /\ c.args.grid_search
    /\ c.args.train_test
    /\ c.args.test_set # None

\* C1: every run_analysis call with grid_search, train_test and a test set
\* goes through its steps in the order run_sensitivity call and return,
\* run_train call and return, assignment of trainscore, run_test call and
\* return, assignment of testscore, return: a call that raises stops inside
\* this order, a call that returns has made all the steps, returns self and
\* leaves the results of run_train and of run_test in trainscore and testscore.
C1_AnalysisOrder ==
    FullAnalysis(call) =>
        /\ IsPrefix(AnalysisSteps(trace), AnalysisOrder)
        /\ Returned(outcome) =>
              /\ AnalysisSteps(trace) = AnalysisOrder
              /\ outcome.val = <<"self">>
              /\ trainscore = <<"train", call.args.train_set[1], call.args.cv>>
              /\ testscore = <<"test", call.args.test_set[1], call.args.cv>>

\* C1 witness: such a call has returned after a grid search that tuned the
\* estimator and a test that left its scores
C1_Witness ==
    /\ FullAnalysis(call)
    /\ Returned(outcome)
    /\ Len(estimator.params) = 2
    /\ testscore = <<"test", <<"D2">>, 3>>

\* C2: in a run_analysis call, run_sensitivity is called exactly when
\* grid_search is set; run_train is called only when train_test is set, and
\* is called then unless the call has raised before; run_test is called only
\* when train_test is set and a test set is given, and is called then unless
\* the call has raised before; a call that skips run_train leaves trainscore
\* as it was, a call that skips run_test leaves testscore as it was.
C2_StepsFollowFlags ==
    [][call'.op = "run_analysis" =>
        LET a == call'.args
            testing == a.train_test /\ a.test_set # None
        IN /\ Has(trace', <<"run_sensitivity", "call">>) <=> a.grid_search
           /\ Has(trace', <<"run_train", "call">>) => a.train_test
           /\ (a.train_test /\ ~Has(trace', <<"run_train", "call">>))
                 => (~Returned(outcome') /\ a.grid_search
                     /\ ~Has(trace', <<"run_sensitivity", "return">>))
           /\ Has(trace', <<"run_test", "call">>) => testing
           /\ (testing /\ ~Has(trace', <<"run_test", "call">>))
                 => (~Returned(outcome') /\ ~Has(trace', <<"trainscore", "assign">>))
           /\ ~a.train_test
                 => (trainscore' = trainscore /\ ~Has(trace', <<"trainscore", "assign">>))
           /\ ~testing
                 => (testscore' = testscore /\ ~Has(trace', <<"testscore", "assign">>))
    ]_vars

\* C2 witness: a call with train_test=False and a test set has returned and
\* the scores of an earlier call are still there
C2_Witness ==
    /\ call.op = "run_analysis"
    /\ ~call.args.train_test
    /\ call.args.grid_search
    /\ call.args.test_set # None
    /\ Returned(outcome)
    /\ trainscore # None
    /\ testscore # None

\* C3: when grid_searchcv returns, self.estimator is the best estimator of
\* the search of param_grid started from the estimator the call found,
\* self.gridcv_results is the table of results of that search, and the table
\* is the returned value.
C3_GridSearchUpdates ==
    [][(call'.op = "grid_searchcv" /\ Returned(outcome')) =>
        /\ estimator' = BestEstimator(estimator, call'.args.param_grid)
        /\ estimator'.fitted
        /\ estimator'.params = Append(estimator.params, call'.args.param_grid)
        /\ gridcv_results' = <<estimator.params, call'.args.param_grid, call'.args.d>>
        /\ outcome'.val = gridcv_results'
    ]_vars

\* C3 witness: a second grid search has returned and replaced the results of
\* the first
C3_Witness ==
    /\ call.op = "grid_searchcv"
    /\ Returned(outcome)
    /\ Len(estimator.params) = 2
    /\ gridcv_results = <<SubSeq(estimator.params, 1, 1), estimator.params[2], "D1">>

\* C4: when rand_searchcv returns, self.estimator is the best estimator of the
\* search, self.gridcv_results is the table of results of this search, and
\* the table is the returned value.
C4_RandSearchUpdates ==
    (call.op = "rand_searchcv" /\ Returned(outcome)) =>
        /\ estimator.fitted
        /\ estimator.params[Len(estimator.params)] = call.args.param_distributions
        /\ outcome.val[2] = call.args.param_distributions
        /\ gridcv_results = outcome.val

\* C4 witness: rand_searchcv has returned the results of its search and
\* self.gridcv_results is not these results
C4_Witness ==
    /\ call.op = "rand_searchcv"
    /\ Returned(outcome)
    /\ outcome.val[2] = call.args.param_distributions
    /\ gridcv_results # outcome.val

\* the '.pipe' files of the model path, in the order the constructor call
\* listed them
ListedPipes == SelectSeq(call.args.ls, LAMBDA k : k \in DOMAIN disk)

\* C5: the constructor makes a pipeline with pipe_main of a string, takes an
\* estimator object as it is, raises ValueError for any other value that is
\* not None, and for None takes the estimator of the first '.pipe' file read,
\* or the dummy pipeline if no '.pipe' file is there.
C5_EstimatorResolution ==
    call.op = "__init__" =>
        LET arg == call.args.estimator
        IN /\ arg.kind = "str"
                => (Returned(outcome) /\ estimator = pipe_main(arg.name))
           /\ arg.kind = "estimator"
                => (Returned(outcome) /\ estimator = arg.obj)
           /\ arg.kind = "object"
                => (outcome.kind = "raise" /\ outcome.exc = "ValueError")
           /\ (arg.kind = "None" /\ ListedPipes # <<>>)
                => (Returned(outcome) /\ estimator = disk[ListedPipes[1]])
           /\ (arg.kind = "None" /\ ListedPipes = <<>>)
                => (Returned(outcome) /\ estimator = pipe_main("dummy"))

\* C5 witness: a constructor without estimator found two different '.pipe'
\* files and took the one listed first
C5_Witness ==
    /\ call.op = "__init__"
    /\ call.args.estimator.kind = "None"
    /\ Len(ListedPipes) >= 2
    /\ disk[ListedPipes[1]] # disk[ListedPipes[Len(ListedPipes)]]
    /\ estimator = disk[ListedPipes[1]]

\* the data run_sensitivity searches on: the train set given, or the stored one
SensitivityData(c, d) ==
    IF c.args.train_set # None THEN c.args.train_set[1] ELSE d[TrainDataKey][1]

\* the calls of grid_searchcv among the events t of one call
SearchEvents(t) == SelectSeq(t, LAMBDA e : e[1] = "grid_searchcv")

\* C6: a run_sensitivity call with a list of k >= 1 grids calls grid_searchcv
\* on the grids in list order, and on no more when it raises. When it
\* returns, it has called grid_searchcv k times, once per grid; search i
\* started from the estimator the searches before it left; self.estimator
\* is the best estimator of the last search, self.gridcv_results its results;
\* the file spreadsheet/GridcvResults0.xlsx holds the k results in the order
\* of the grids; and save() has written the '.pipe' file of that estimator
\* (as it was before the pipeline's cache folder was shut).
C6_SensitivityChain ==
    [][(/\ call'.op = "run_sensitivity"
        /\ call'.args.param_grid # Predefined
        /\ Len(call'.args.param_grid[1]) > 0) =>
        LET grids == call'.args.param_grid[1]
            k == Len(grids)
            d == SensitivityData(call', disk)
            sheet == disk'[<<"spreadsheet", "GridcvResults", "0", ".xlsx">>]
            name == _get_estimator_name(estimator')
        IN /\ IsPrefix(SearchEvents(trace'), [i \in 1..k |-> <<"grid_searchcv", grids[i]>>])
           /\ Returned(outcome') =>
                 /\ SearchEvents(trace') = [i \in 1..k |-> <<"grid_searchcv", grids[i]>>]
                 /\ Len(sheet) = k
                 /\ \A i \in 1..k :
                       sheet[i] = <<estimator.params \o SubSeq(grids, 1, i - 1), grids[i], d>>
                 /\ gridcv_results' = sheet[k]
                 /\ estimator'.params = estimator.params \o grids
                 /\ estimator'.fitted
                 /\ Has(trace', <<"save", name>>)
                 /\ PipeKey(name) \in DOMAIN disk'
                 /\ disk'[PipeKey(name)] = [estimator' EXCEPT !.memory = "tempfolder"]
    ]_vars

\* C6 witness: run_sensitivity has returned from two searches
C6_Witness ==
    /\ call.op = "run_sensitivity"
    /\ call.args.param_grid # Predefined
    /\ Len(call.args.param_grid[1]) = 2
    /\ Returned(outcome)
    /\ Len(disk[<<"spreadsheet", "GridcvResults", "0", ".xlsx">>]) = 2
    /\ estimator.params = call.args.param_grid[1]

\* C7: run_train called with cv = 1 and a train set ends without an error
\* and returns the averaged train scores of that train set.
C7_TrainWithoutFolds ==
    (call.op = "run_train" /\ call.args.cv = 1 /\ call.args.train_set # None) =>
        /\ Returned(outcome)
        /\ outcome.val = <<"train", call.args.train_set[1], 1>>

\* C7 witness: run_train with cv = 1 has split and fitted the whole train set
\* and raised the ValueError of the cross validation
C7_Witness ==
    /\ call.op = "run_train"
    /\ call.args.cv = 1
    /\ call.args.train_set # None
    /\ Has(trace, <<"plot_auc_traincv", "1">>)
    /\ Has(trace, <<"cv_validate", "n_splits rejected">>)
    /\ outcome.kind = "raise"
    /\ outcome.exc = "ValueError"

\* C8: a run_analysis call with q, bins and max_leaf_nodes all None plots no
\* lift curve, whatever was run on the model before.
C8_NoLiftPlot ==
    (call.op = "run_analysis" /\ call.args.lift = NoLift) =>
        ~Has(trace, <<"plot_lift", "plot">>)

\* C8 witness: a run_analysis call with q, bins and max_leaf_nodes all None
\* has plotted a lift curve in run_test
C8_Witness ==
    /\ call.op = "run_analysis"
    /\ call.args.lift = NoLift
    /\ Has(trace, <<"plot_lift", "plot">>)
    /\ Returned(outcome)

Workflow(c) ==
    /\ FullAnalysis(c)
    /\ c.args.train_set # None
    /\ c.args.lift.max_leaf_nodes # None
    /\ c.args.cv = 3

ScoringEvents(t) ==
    SelectSeq(t, LAMBDA e : e[1] \in {"plot_auc_test", "plot_lift", "test_score"})

\* the writes of a '.testdata' file among the events t of one call
TestDataWrites(t) == SelectSeq(t, LAMBDA e : e[1] = "write testdata")

\* the '.testdata' files among those of d, in the listing order ls
ListedTestData(ls, d) == SelectSeq(ls, LAMBDA k : k \in DOMAIN d)

\* C11: a run_test call with a test set writes the list of test sets with
\* their titles to data/<n>.testdata as its first step, before any plot or
\* score; the titles are those given, or "0", "1", ... in the order of the
\* test sets when none is given; if the titles are not as many as the test
\* sets the call raises ValueError and has plotted, scored and written
\* nothing. A call without test set takes the test sets and the titles of
\* the '.testdata' file listed first, whatever title it is given, and leaves
\* every '.testdata' file as it was; if there is no such file it raises
\* FileNotFoundError and has done nothing. A call that returns has scored
\* exactly these test sets under these titles.
C11_TestDataStore ==
    [][call'.op = "run_test" =>
        LET a == call'.args
            given == a.test_set # None
            listed == ListedTestData(a.ls, disk)
            sets == IF given THEN a.test_set[1] ELSE disk[listed[1]][1]
            titles == IF ~given THEN disk[listed[1]][2]
                      ELSE IF a.title # None THEN a.title[1]
                      ELSE [i \in 1..Len(a.test_set[1]) |-> NumStr(i - 1)]
        IN /\ (given /\ Len(sets) = Len(titles))
                 => /\ trace'[1] = <<"run_test", "call">>
                    /\ trace'[2] = <<"write testdata", NumStr(Len(titles))>>
                    /\ Len(TestDataWrites(trace')) = 1
                    /\ disk'[TestDataKey(Len(titles))] = <<sets, titles>>
           /\ (given /\ Len(sets) # Len(titles))
                 => /\ outcome'.kind = "raise"
                    /\ outcome'.exc = "ValueError"
                    /\ ScoringEvents(trace') = <<>>
                    /\ disk' = disk
           /\ (~given /\ listed = <<>>)
                 => /\ outcome'.kind = "raise"
                    /\ outcome'.exc = "FileNotFoundError"
                    /\ ScoringEvents(trace') = <<>>
                    /\ disk' = disk
           /\ ~given
                 => /\ TestDataWrites(trace') = <<>>
                    /\ \A k \in TestDataKeys :
                          /\ (k \in DOMAIN disk') <=> (k \in DOMAIN disk)
                          /\ (k \in DOMAIN disk) => (disk'[k] = disk[k])
           /\ Returned(outcome')
                 => /\ outcome'.val = <<"test", sets, a.cv>>
                    /\ Len(sets) = Len(titles)
                    /\ Len(SelectSeq(trace', LAMBDA e : e[1] = "test_score")) = Len(sets)
                    /\ \A i \in 1..Len(titles) :
                          <<"spreadsheet", "TestSplits", titles[i], ".xlsx">>
                              \in DOMAIN disk'
    ]_vars

\* C11 witness: a call without test set, with a title, found two '.testdata'
\* files and has scored the two test sets of the one listed first under the
\* titles stored with them
C11_Witness ==
    /\ call.op = "run_test"
    /\ call.args.test_set = None
    /\ call.args.title # None
    /\ Returned(outcome)
    /\ Len(ListedTestData(call.args.ls, disk)) >= 2
    /\ outcome.val[2] = disk[ListedTestData(call.args.ls, disk)[1]][1]
    /\ Len(outcome.val[2]) = 2
    /\ disk[ListedTestData(call.args.ls, disk)[1]][2] # call.args.title[1]

====
